---- MODULE Spec2Model ----
(***************************************************************************)
(* Evaluation and cross-validation engine of gpu-ml-framework:             *)
(*   src/src/eval/metrics.py  (evaluate, multiclass_brier,                 *)
(*                             expected_calibration_error)                 *)
(*   src/src/train/run_cv.py  (main: StratifiedKFold loop, bootstrap_ci)   *)
(*                                                                         *)
(* Numbers.  Probabilities are integers in units of 1/Scale.  Every        *)
(* derived real (precision, recall, F1, Brier, ECE) is an exact rational   *)
(* <<n, d>> in lowest terms with d > 0.                                    *)
(*                                                                         *)
(* Library calls.  numpy and scikit-learn calls made by the source are     *)
(* modelled at their call sites by what the library does there             *)
(* (scikit-learn >= 1.3, the version src/repo.py:55 requires).             *)
(***************************************************************************)
EXTENDS Integers, Sequences, FiniteSets, TLC

VARIABLES
    mode,       \* "eval": a direct call of evaluate; "cv": run_cv.main
    y_true,     \* evaluate's y_true (in a CV run: y[te])
    probas,     \* evaluate's probas: a sequence of rows, each a sequence of columns
    classes,    \* evaluate's classes: the ordered class list
    res,        \* evaluate's outcome (NoRes before the call)
    y,          \* run_cv.main: the label column y
    folds,      \* run_cv.main: args.folds
    pc,         \* run_cv.main: position in main
    test_folds, \* StratifiedKFold: fold number assigned to each sample
    fold,       \* run_cv.main: loop counter (start=1); 0 before the first iteration
    tr,         \* run_cv.main: train indices of the current iteration
    te,         \* run_cv.main: test indices of the current iteration
    model,      \* run_cv.main: the classifier bound to `model` in this iteration
    built,      \* number of classifiers build() has constructed so far
    macro_f1_scores, \* run_cv.main: list of per-fold macro F1
    all_reports,     \* run_cv.main: list of per-fold reports
    error,      \* the exception that ended main, or NoError
    warned,     \* warnings issued by the library calls
    values,     \* bootstrap_ci: the values argument
    n_boot,     \* bootstrap_ci: the n_boot argument
    alpha,      \* bootstrap_ci: the alpha argument
    seed,       \* bootstrap_ci: the seed argument
    rng,        \* bootstrap_ci: state of the local generator rng (-1: not created)
    boots,      \* bootstrap_ci: the list boots
    sample,     \* bootstrap_ci: the resample drawn in the last pass of the loop
    ci,         \* bootstrap_ci: the returned pair <<lo, hi>> (<<>> before the return)
    np_global,  \* state of numpy's global generator, which other code may advance
    others,     \* number of other computations run between two calls
    calls,      \* number of bootstrap_ci calls that have returned
    last_ci,    \* the pair the previous call of bootstrap_ci returned
    summary,    \* run_cv.main: the summary written at lines 64-75
    run,        \* 1 in a first CV run, 2 in a repetition of it on the same dataset
    memo        \* what the seeded shuffle and the classifiers produced in run 1,
                \* and the summary run 1 wrote

vars == <<mode, y_true, probas, classes, res, y, folds, pc, test_folds, fold,
          tr, te, model, built, macro_f1_scores, all_reports, error, warned,
          values, n_boot, alpha, seed, rng, boots, sample, ci, np_global, others,
          calls, last_ci, summary, run, memo>>

-----------------------------------------------------------------------------
(* Bounds of the model *)

\* longest y_true / largest number of probas rows of a direct evaluate call
MaxRows == 2
\* largest dataset of a CV run
MaxN == 3
\* largest --folds of a CV run
MaxK == 2
\* largest label sequence handed to the splitter alone
MaxSplitN == 5
\* largest fold count handed to the splitter alone
MaxSplitK == 3

\* longest values sequence of a direct bootstrap_ci call
MaxVals == 3
\* largest n_boot of a direct bootstrap_ci call
MaxBoot == 3
\* largest seed of a direct bootstrap_ci call
MaxSeed == 1
\* most other computations run between two bootstrap_ci calls
MaxOther == 1
\* resamples main asks for (the source passes n_boot=2000)
MainNBoot == 2
\* bits of the significand of a floating-point number (the source's float64 has 53)
SignificandBits == 4
\* bits of the state of the bit generator behind default_rng
RngWidth == 5

\* resolution of the probability grid: a probability is an integer p with value p/Scale
Scale == 10
\* the probability values a matrix entry is drawn from: 0, about one half, 1
PVals == {0, Scale \div 2, Scale}
\* the label universe
Labels == {"A", "B", "C"}
\* the labels a class list of a direct evaluate call is made of; the third
\* label occurs in y_true only
ClassLabels == {"A", "B"}
\* sort order of the labels (np.unique / sorted)
LabelRank == [l \in Labels |-> CASE l = "A" -> 1 [] l = "B" -> 2 [] OTHER -> 3]

-----------------------------------------------------------------------------
(* Exact rationals *)

RECURSIVE GCD(_, _)
GCD(a, b) == IF b = 0 THEN a ELSE GCD(b, a % b)

Abs(x) == IF x < 0 THEN -x ELSE x

\* n/d in lowest terms, d > 0
Rat(n, d) ==
    LET g == GCD(Abs(n), Abs(d))
        s == IF d < 0 THEN -1 ELSE 1
    IN <<(s * n) \div g, (s * d) \div g>>

RZero == <<0, 1>>
ROne == <<1, 1>>
RAdd(a, b) == Rat(a[1] * b[2] + b[1] * a[2], a[2] * b[2])
RSub(a, b) == Rat(a[1] * b[2] - b[1] * a[2], a[2] * b[2])
RMul(a, b) == Rat(a[1] * b[1], a[2] * b[2])
RAbs(a) == <<Abs(a[1]), a[2]>>
RLe(a, b) == a[1] * b[2] <= b[1] * a[2]
RLt(a, b) == a[1] * b[2] < b[1] * a[2]

\* the sum of the first n elements of a sequence of rationals
RECURSIVE RSumTo(_, _)
RSumTo(s, n) == IF n = 0 THEN RZero ELSE RAdd(RSumTo(s, n - 1), s[n])

\* np.mean of the first n elements of a sequence of rationals, n > 0
RMeanTo(s, n) == RMul(RSumTo(s, n), Rat(1, n))

\* the sum of the first n elements of a sequence of integers
RECURSIVE SumTo(_, _)
SumTo(s, n) == IF n = 0 THEN 0 ELSE SumTo(s, n - 1) + s[n]

\* the sequence <<f[1], ..., f[n]>> of a set listed in rank order
RECURSIVE SortLabels(_)
SortLabels(S) ==
    IF S = {} THEN <<>>
    ELSE LET m == CHOOSE l \in S : \A o \in S : LabelRank[l] <= LabelRank[o]
         IN <<m>> \o SortLabels(S \ {m})

Range(s) == {s[i] : i \in DOMAIN s}

-----------------------------------------------------------------------------
(* numpy helpers used by metrics.py.  Sequences are 1-based here: position *)
(* i of the model is index i-1 of the source.                              *)

\* row.argmax(): the first position holding the maximum
RECURSIVE ArgmaxScan(_, _, _)
ArgmaxScan(row, i, best) ==
    IF i > Len(row) THEN best
    ELSE ArgmaxScan(row, i + 1, IF row[i] > row[best] THEN i ELSE best)

\* (faulty variant of NpArgmax) the last position holding the maximum
RECURSIVE ArgmaxLastScan(_, _, _)
ArgmaxLastScan(row, i, best) ==
    IF i > Len(row) THEN best
    ELSE ArgmaxLastScan(row, i + 1, IF row[i] >= row[best] THEN i ELSE best)

NpArgmaxLast(row) == ArgmaxLastScan(row, 2, 1)

NpArgmax(row) == ArgmaxScan(row, 2, 1)

\* row.max()
RECURSIVE MaxScan(_, _, _)
MaxScan(row, i, best) ==
    IF i > Len(row) THEN best
    ELSE MaxScan(row, i + 1, IF row[i] > best THEN row[i] ELSE best)

NpMax(row) == MaxScan(row, 2, row[1])

NRows(P) == Len(P)
NCols(P) == Len(P[1])

-----------------------------------------------------------------------------
(* evaluate, line 44: preds = np.array(classes)[probas.argmax(axis=1)]     *)

ArgmaxRows(P) == [r \in 1..NRows(P) |-> NpArgmax(P[r])]

\* fancy indexing raises IndexError when an argmax lies outside the class list
PredsFails(P, cls) == \E r \in 1..NRows(P) : NpArgmax(P[r]) > Len(cls)

Preds(P, cls) == [r \in 1..NRows(P) |-> cls[NpArgmax(P[r])]] \o <<>>

-----------------------------------------------------------------------------
(* evaluate, line 45: classification_report(y_true, preds, output_dict=True) *)
(* No labels= argument is passed, so the report's classes are              *)
(* unique_labels(y_true, preds): the sorted union of the labels that occur. *)

ReportFails(yt, pr) == Len(yt) # Len(pr)

ReportLabels(yt, pr) == Range(yt) \cup Range(pr)

\* (faulty variant of PrfDivide) zero_division=1: an undefined ratio is 1
PrfDivideOne(n, d) == IF d = 0 THEN ROne ELSE Rat(n, d)

\* _prf_divide with zero_division="warn": an undefined ratio is 0 (and warns)
PrfDivide(n, d) == IF d = 0 THEN RZero ELSE Rat(n, d)

TruePos(yt, pr, l) == Cardinality({i \in DOMAIN yt : yt[i] = l /\ pr[i] = l})
PredSum(pr, l) == Cardinality({i \in DOMAIN pr : pr[i] = l})
TrueSum(yt, l) == Cardinality({i \in DOMAIN yt : yt[i] = l})

Precision(yt, pr, l) == PrfDivide(TruePos(yt, pr, l), PredSum(pr, l))
Recall(yt, pr, l) == PrfDivide(TruePos(yt, pr, l), TrueSum(yt, l))

\* F1: harmonic mean of precision and recall, 0 when both are 0
FScore(p, r) ==
    LET denom == RAdd(p, r)
    IN IF denom[1] = 0 THEN RZero
       ELSE RMul(RMul(<<2, 1>>, RMul(p, r)), <<denom[2], denom[1]>>)

Metrics == {"precision", "recall", "f1-score", "support"}

\* one line of the report: a mapping with the four metrics of class l
ClassRow(yt, pr, l) ==
    LET p == Precision(yt, pr, l)
        r == Recall(yt, pr, l)
    IN ("precision" :> p) @@ ("recall" :> r) @@ ("f1-score" :> FScore(p, r))
         @@ ("support" :> <<TrueSum(yt, l), 1>>)

\* the lines of the classes ls[1], ls[2], ... of the report
ClassRows(yt, pr, ls) == [i \in 1..Len(ls) |-> ClassRow(yt, pr, ls[i])] \o <<>>

\* average="macro": the unweighted mean over the report's classes
MacroAvg(yt, rows) ==
    LET Mean(m) == RMeanTo([i \in 1..Len(rows) |-> rows[i][m]], Len(rows))
    IN ("precision" :> Mean("precision")) @@ ("recall" :> Mean("recall"))
         @@ ("f1-score" :> Mean("f1-score")) @@ ("support" :> <<Len(yt), 1>>)

\* average="weighted": the mean over the report's classes weighted by support
WeightedAvg(yt, rows) ==
    LET Mean(m) == RMul(RSumTo([i \in 1..Len(rows) |->
                                  RMul(rows[i]["support"], rows[i][m])], Len(rows)),
                        Rat(1, Len(yt)))
    IN ("precision" :> Mean("precision")) @@ ("recall" :> Mean("recall"))
         @@ ("f1-score" :> Mean("f1-score")) @@ ("support" :> <<Len(yt), 1>>)

Accuracy(yt, pr) == Rat(Cardinality({i \in DOMAIN yt : yt[i] = pr[i]}), Len(yt))

ReportKeys(yt, pr) == ReportLabels(yt, pr) \cup {"accuracy", "macro avg", "weighted avg"}

ClassificationReport(yt, pr) ==
    LET ls == SortLabels(ReportLabels(yt, pr))
        rows == ClassRows(yt, pr, ls)
    IN [key \in ReportKeys(yt, pr) |->
          CASE key = "accuracy" -> Accuracy(yt, pr)
            [] key = "macro avg" -> MacroAvg(yt, rows)
            [] key = "weighted avg" -> WeightedAvg(yt, rows)
            [] OTHER -> rows[CHOOSE i \in DOMAIN ls : ls[i] = key]]

-----------------------------------------------------------------------------
(* evaluate, line 46: confusion_matrix(y_true, preds, labels=classes)      *)

\* "At least one label specified must be in y_true"
ConfusionFails(yt, cls) == Range(yt) \cap Range(cls) = {}

\* (faulty variant of ConfusionMatrix) rows are the predicted class, columns the true class
ConfusionTransposed(yt, pr, cls) ==
    [i \in 1..Len(cls) |->
       [j \in 1..Len(cls) |-> Cardinality({r \in DOMAIN yt : yt[r] = cls[j] /\ pr[r] = cls[i]})]]

\* cm[i][j]: samples with true label cls[i] and predicted label cls[j];
\* a sample whose true or predicted label is not in cls is left out
ConfusionMatrix(yt, pr, cls) ==
    [i \in 1..Len(cls) |->
       [j \in 1..Len(cls) |-> Cardinality({r \in DOMAIN yt : yt[r] = cls[i] /\ pr[r] = cls[j]})]]

-----------------------------------------------------------------------------
(* multiclass_brier, lines 17-22 *)

\* probas[:, i] raises IndexError for a class position beyond the last column
BrierFails(P, cls) == Len(cls) > NCols(P)

\* (faulty variant of BrierScoreLoss) the mean absolute error
BrierAbsLoss(yt, P, c, i) ==
    Rat(SumTo([r \in 1..Len(yt) |->
                 Abs((IF yt[r] = c THEN Scale ELSE 0) - P[r][i])], Len(yt)),
        Len(yt) * Scale)

\* brier_score_loss(y_bin, probas[:, i]): mean squared error between the
\* indicator (y_true == c) and column i
BrierScoreLoss(yt, P, c, i) ==
    Rat(SumTo([r \in 1..Len(yt) |->
                 LET d == (IF yt[r] = c THEN Scale ELSE 0) - P[r][i] IN d * d], Len(yt)),
        Len(yt) * Scale * Scale)

\* (faulty variant of MulticlassBrier) the per-class scores are summed, not averaged
MulticlassBrierSum(yt, P, cls) ==
    RSumTo([i \in 1..Len(cls) |-> BrierScoreLoss(yt, P, cls[i], i)], Len(cls))

\* line 22: float(np.mean(scores))
MulticlassBrier(yt, P, cls) ==
    RMeanTo([i \in 1..Len(cls) |-> BrierScoreLoss(yt, P, cls[i], i)], Len(cls))

-----------------------------------------------------------------------------
(* expected_calibration_error, lines 25-40 *)

\* default of the bins parameter
Bins == 15

\* confidences = probas.max(axis=1), in units of 1/Scale
Confidences(P) == [r \in 1..NRows(P) |-> NpMax(P[r])] \o <<>>

\* correct = (classes_np[predictions] == y_true)
Correct(yt, P, cls) == [r \in 1..NRows(P) |-> cls[NpArgmax(P[r])] = yt[r]] \o <<>>

\* mask of bin i (i = 0 .. bins-1): lo < confidence <= hi with
\* lo = i/bins and hi = (i+1)/bins
BinMask(conf, i) ==
    {r \in DOMAIN conf : conf[r] * Bins > i * Scale /\ conf[r] * Bins <= (i + 1) * Scale}

\* (faulty variant of BinTerm) the bin's gap is added without the weight mask.mean()
BinTermUnweighted(conf, corr, i) ==
    LET mask == BinMask(conf, i)
        n == Cardinality(mask)
    IN IF n = 0 THEN RZero
       ELSE LET acc == Rat(Cardinality({r \in mask : corr[r]}), n)
                cbar == Rat(SumTo([r \in DOMAIN conf |-> IF r \in mask THEN conf[r] ELSE 0],
                                  Len(conf)),
                            n * Scale)
            IN RAbs(RSub(acc, cbar))

\* (faulty variant of BinTerm) the weight is the bin's share of the binned samples
BinTermBinnedWeight(conf, corr, i) ==
    LET mask == BinMask(conf, i)
        n == Cardinality(mask)
        binned == Cardinality({r \in DOMAIN conf : conf[r] > 0 /\ conf[r] <= Scale})
    IN IF n = 0 THEN RZero
       ELSE LET acc == Rat(Cardinality({r \in mask : corr[r]}), n)
                cbar == Rat(SumTo([r \in DOMAIN conf |-> IF r \in mask THEN conf[r] ELSE 0],
                                  Len(conf)),
                            n * Scale)
            IN RMul(Rat(n, binned), RAbs(RSub(acc, cbar)))

\* the term bin i adds to ece; an empty bin is skipped (continue)
BinTerm(conf, corr, i) ==
    LET mask == BinMask(conf, i)
        n == Cardinality(mask)
    IN IF n = 0 THEN RZero
       ELSE LET acc == Rat(Cardinality({r \in mask : corr[r]}), n)
                cbar == Rat(SumTo([r \in DOMAIN conf |-> IF r \in mask THEN conf[r] ELSE 0],
                                  Len(conf)),
                            n * Scale)
            IN RMul(Rat(n, Len(conf)), RAbs(RSub(acc, cbar)))

\* the number of samples each of the bins 1..bins holds (np.sum(mask) per pass
\* of the loop of line 32)
BinCounts(P) ==
    [b \in 1..Bins |-> Cardinality(BinMask(Confidences(P), b - 1))] \o <<>>

ExpectedCalibrationError(yt, P, cls) ==
    LET conf == Confidences(P)
        corr == Correct(yt, P, cls)
    IN RSumTo([b \in 1..Bins |-> BinTerm(conf, corr, b - 1)], Bins)

-----------------------------------------------------------------------------
(* evaluate, lines 43-49.  The result records, besides the four fields of  *)
(* EvalResult, which exception ended the call (if any), the stages that    *)
(* were computed before it, the intermediate preds, the populations of the *)
(* bins of expected_calibration_error, and the warnings issued.            *)

\* the warnings classification_report issues: with zero_division="warn" an
\* undefined precision or recall raises UndefinedMetricWarning
ReportWarnings(yt, pr) ==
    IF \E l \in ReportLabels(yt, pr) : PredSum(pr, l) = 0 \/ TrueSum(yt, l) = 0
    THEN {"UndefinedMetricWarning"} ELSE {}

NoRes ==
    [outcome |-> "none", computed |-> {}, preds |-> <<>>, report |-> <<>>,
     confusion |-> <<>>, brier |-> RZero, ece |-> RZero, bin_counts |-> <<>>,
     warnings |-> {}]

Evaluate(yt, P, cls) ==
    IF PredsFails(P, cls)
    THEN [NoRes EXCEPT !.outcome = "IndexError"]
    ELSE LET preds == Preds(P, cls) IN
    IF ReportFails(yt, preds)
    THEN [NoRes EXCEPT !.outcome = "ValueError", !.computed = {"preds"},
                       !.preds = preds]
    ELSE LET rpt == ClassificationReport(yt, preds) IN
    IF ConfusionFails(yt, cls)
    THEN [NoRes EXCEPT !.outcome = "ValueError", !.computed = {"preds", "report"},
                       !.preds = preds, !.report = rpt,
                       !.warnings = ReportWarnings(yt, preds)]
    ELSE LET cm == ConfusionMatrix(yt, preds, cls) IN
    IF BrierFails(P, cls)
    THEN [NoRes EXCEPT !.outcome = "IndexError",
                       !.computed = {"preds", "report", "confusion"},
                       !.preds = preds, !.report = rpt, !.confusion = cm,
                       !.warnings = ReportWarnings(yt, preds)]
    ELSE [outcome |-> "ok",
          computed |-> {"preds", "report", "confusion", "brier", "ece"},
          preds |-> preds, report |-> rpt, confusion |-> cm,
          brier |-> MulticlassBrier(yt, P, cls),
          ece |-> ExpectedCalibrationError(yt, P, cls),
          bin_counts |-> BinCounts(P),
          warnings |-> ReportWarnings(yt, preds)]

-----------------------------------------------------------------------------
(* run_cv.main, line 47 and line 51:                                       *)
(*   skf = StratifiedKFold(n_splits=args.folds, shuffle=True, random_state=42) *)
(*   for fold, (tr, te) in enumerate(skf.split(X, y), start=1)             *)
(* Sample positions are 1..N (index p-1 of the source); fold numbers of    *)
(* test_folds are 0..k-1 as in the library.                                *)

\* (faulty variant of SplitterFails) the constructor accepts a single fold
SplitterFailsZero(k) == k <= 0

\* the constructor rejects n_splits <= 1 (ValueError)
SplitterFails(k) == k <= 1

\* position of the first occurrence of label l in labels
FirstPos(labels, l) == CHOOSE p \in DOMAIN labels :
                          labels[p] = l /\ \A q \in 1..(p - 1) : labels[q] # l

\* the classes of labels in order of first appearance
RECURSIVE ByFirstPos(_, _)
ByFirstPos(labels, S) ==
    IF S = {} THEN <<>>
    ELSE LET m == CHOOSE l \in S : \A o \in S : FirstPos(labels, l) <= FirstPos(labels, o)
         IN <<m>> \o ByFirstPos(labels, S \ {m})

EncodedClasses(labels) == ByFirstPos(labels, Range(labels))

\* y_encoded: each label replaced by the rank of its class (1-based)
YEncoded(labels) ==
    LET cs == EncodedClasses(labels)
    IN [p \in DOMAIN labels |-> CHOOSE c \in DOMAIN cs : cs[c] = labels[p]] \o <<>>

\* y_counts = np.bincount(y_encoded)
YCounts(labels) ==
    LET enc == YEncoded(labels)
    IN [c \in 1..Len(EncodedClasses(labels)) |-> Cardinality({p \in DOMAIN enc : enc[p] = c})] \o <<>>

\* y_order = np.sort(y_encoded)
YOrder(labels) ==
    LET cnt == YCounts(labels)
        Before(c) == SumTo(cnt, c - 1)
    IN [p \in DOMAIN labels |->
          CHOOSE c \in DOMAIN cnt : Before(c) < p /\ p <= Before(c) + cnt[c]] \o <<>>

\* (faulty variant of Allocation) y_encoded is sliced without being sorted first
AllocationUnsorted(labels, k) ==
    LET enc == YEncoded(labels)
        nc == Len(EncodedClasses(labels))
    IN [i \in 0..(k - 1) |->
          [c \in 1..nc |-> Cardinality({p \in DOMAIN enc : (p - 1) % k = i /\ enc[p] = c})] \o <<>>]

\* allocation[i][c] = np.bincount(y_order[i::n_splits])[c]
Allocation(labels, k) ==
    LET ord == YOrder(labels)
        nc == Len(EncodedClasses(labels))
    IN [i \in 0..(k - 1) |->
          [c \in 1..nc |-> Cardinality({p \in DOMAIN ord : (p - 1) % k = i /\ ord[p] = c})] \o <<>>]

\* split / _make_test_folds raise ValueError: more splits than samples, or
\* more splits than the members of every class
SplitFails(labels, k) ==
    \/ k > Len(labels)
    \/ \A c \in DOMAIN YCounts(labels) : k > YCounts(labels)[c]

\* "The least populated class in y has only %d members, which is less than
\* n_splits=%d": a UserWarning, the split goes on
SplitWarns(labels, k) == \E c \in DOMAIN YCounts(labels) : k > YCounts(labels)[c]

\* the test_folds arrays _make_test_folds can return: within each class the
\* fold numbers are arange(k).repeat(allocation[:, c]) in the order the
\* seeded shuffle leaves them, which the model does not compute
TestFoldsChoices(labels, k) ==
    LET enc == YEncoded(labels)
        alloc == Allocation(labels, k)
    IN {tf \in [DOMAIN labels -> 0..(k - 1)] :
          \A i \in 0..(k - 1) : \A c \in DOMAIN alloc[i] :
             Cardinality({p \in DOMAIN enc : enc[p] = c /\ tf[p] = i}) = alloc[i][c]}

\* (faulty variant of TestIdx) test_folds <= i
TestIdxUpTo(tf, i) == {p \in DOMAIN tf : tf[p] <= i}

\* _iter_test_masks: test_folds == i
TestIdx(tf, i) == {p \in DOMAIN tf : tf[p] = i}

\* (faulty variant of TrainIdx) the test indices are not taken out
TrainIdxAll(tf, i) == DOMAIN tf

\* split: train_index = indices[np.logical_not(test_index)]
TrainIdx(tf, i) == DOMAIN tf \ TestIdx(tf, i)

\* a[idx] for an index set idx: the elements in ascending index order
RECURSIVE Take(_, _)
Take(a, idx) ==
    IF idx = {} THEN <<>>
    ELSE LET m == CHOOSE p \in idx : \A q \in idx : p <= q
         IN <<a[m]>> \o Take(a, idx \ {m})

-----------------------------------------------------------------------------
(* Floating-point arithmetic of run_cv.py: np.mean and np.percentile work  *)
(* on float64 and round after every operation.  A float is a rational with *)
(* a significand of SignificandBits bits; the exponent range is not bounded.     *)

RECURSIVE Pow2(_)
Pow2(k) == IF k = 0 THEN 1 ELSE 2 * Pow2(k - 1)

\* <<n, d, e>> with n/d * 2^e the given value and 2^(SignificandBits-1) <= n/d < 2^SignificandBits
RECURSIVE Normalize(_, _, _)
Normalize(n, d, e) ==
    IF n >= d * Pow2(SignificandBits) THEN Normalize(n, 2 * d, e + 1)
    ELSE IF n < d * Pow2(SignificandBits - 1) THEN Normalize(2 * n, d, e - 1)
    ELSE <<n, d, e>>

\* n/d rounded to the nearest integer, ties to even
RoundHalfEven(n, d) ==
    LET m == n \div d
        r == n % d
    IN IF 2 * r > d \/ (2 * r = d /\ m % 2 = 1) THEN m + 1 ELSE m

\* the float nearest to the rational x
FRound(x) ==
    IF x[1] = 0 THEN RZero
    ELSE LET s == IF x[1] < 0 THEN -1 ELSE 1
             t == Normalize(Abs(x[1]), x[2], 0)
             m == RoundHalfEven(t[1], t[2])
         IN IF t[3] >= 0 THEN Rat(s * m * Pow2(t[3]), 1) ELSE Rat(s * m, Pow2(-t[3]))

FAdd(a, b) == FRound(RAdd(a, b))
FSub(a, b) == FRound(RSub(a, b))
FMul(a, b) == FRound(RMul(a, b))
FDiv(a, b) == FRound(Rat(a[1] * b[2], a[2] * b[1]))

\* np.add.reduce of the first n elements: below 8 elements a plain loop
RECURSIVE FSumTo(_, _)
FSumTo(s, n) == IF n = 0 THEN RZero ELSE FAdd(FSumTo(s, n - 1), s[n])

\* np.mean(s): the rounded sum divided by the length
NpMean(s) == FDiv(FSumTo(s, Len(s)), <<Len(s), 1>>)

\* the elements of a in ascending order
RECURSIVE SortRats(_)
SortRats(a) ==
    IF Len(a) = 0 THEN <<>>
    ELSE LET i == CHOOSE p \in DOMAIN a : \A q \in DOMAIN a : RLe(a[p], a[q])
         IN <<a[i]>> \o SortRats([j \in 1..(Len(a) - 1) |-> IF j < i THEN a[j] ELSE a[j + 1]])

\* (faulty variant of Lerp) the interpolation weight is applied from the wrong end
LerpReversed(a, b, t) == FAdd(a, FMul(FSub(b, a), FSub(ROne, t)))

\* numpy's _lerp(a, b, t): a + (b - a) * t, and b - (b - a) * (1 - t) where t >= 0.5
Lerp(a, b, t) ==
    LET d == FSub(b, a)
    IN IF RLt(t, <<1, 2>>) THEN FAdd(a, FMul(d, t))
       ELSE FSub(b, FMul(d, FSub(ROne, t)))

\* np.percentile(a, 100 * quant), method "linear": the virtual index
\* (n - 1) * quant, interpolated between its two neighbours in sorted order
NpPercentile(a, quant) ==
    LET n == Len(a)
        arr == SortRats(a)
        v == FMul(<<n - 1, 1>>, quant)
        prev == v[1] \div v[2]
        next == IF prev + 1 > n - 1 THEN n - 1 ELSE prev + 1
        gamma == FSub(v, <<prev, 1>>)
    IN Lerp(arr[prev + 1], arr[next + 1], gamma)

\* line 22: the quantile alpha / 2
QuantLo(al) == FRound(Rat(al[1], 2 * al[2]))
\* line 23: the quantile 1 - alpha / 2
QuantHi(al) == FSub(ROne, QuantLo(al))

-----------------------------------------------------------------------------
(* The generator of bootstrap_ci, line 17: rng = np.random.default_rng(seed). *)
(* The bit generator is a linear congruential generator of RngWidth bits;  *)
(* its initial state is a function of the seed alone.                      *)

RngModulus == Pow2(RngWidth)

\* default_rng(seed): the initial state derived from the seed
SeedSequence(s) == (3 * s + 3) % RngModulus

\* one step of the bit generator
LcgNext(g) == (5 * g + 3) % RngModulus

\* the state after k steps
RECURSIVE RngAfter(_, _)
RngAfter(g, k) == IF k = 0 THEN g ELSE RngAfter(LcgNext(g), k - 1)

\* the position in 1..n that state g selects
Draw(g, n) == ((g * n) \div RngModulus) + 1

\* (faulty variant of Sample) one element more than vals holds is drawn
SampleLong(vals, g) ==
    [i \in 1..(Len(vals) + 1) |-> vals[Draw(RngAfter(g, i), Len(vals))]] \o <<>>

\* line 20: rng.choice(vals, size=len(vals), replace=True) from generator state g
Sample(vals, g) ==
    [i \in 1..Len(vals) |-> vals[Draw(RngAfter(g, i), Len(vals))]] \o <<>>

-----------------------------------------------------------------------------
(* State machine *)

NoModel == [id |-> 0, fitted |-> FALSE, classes_ |-> <<>>, fit_idx |-> {}, pred_idx |-> {}]
\* kind: the exception's class; at: the call that raised it; fold: the value
\* of the loop counter at that moment (the exception itself does not carry it)
NoError == [kind |-> "none", at |-> "none", fold |-> 0]

\* sequences over S of length lo..hi
SeqsOf(S, lo, hi) == UNION {[1..n -> S] : n \in lo..hi}

\* class lists: non-empty sequences of distinct labels of S
ClassLists(S) == {c \in SeqsOf(S, 1, Cardinality(S)) :
                    \A i, j \in DOMAIN c : i # j => c[i] # c[j]}

\* probability matrices with nr rows whose rows are drawn from RowSet
Matrices(nr, RowSet) == [1..nr -> RowSet]

\* rows of nc probabilities on the grid
GridRows(nc) == [1..nc -> PVals]

\* rows of nc probabilities on the grid that sum to 1
SimplexRows(nc) == {row \in GridRows(nc) : SumTo(row, nc) = Scale}

NoSummary ==
    [written |-> FALSE, folds |-> 0, macro_f1_mean |-> RZero, macro_f1_ci |-> <<>>,
     fold_reports |-> <<>>]

\* nothing remembered of an earlier run
NoMemo == [test_folds |-> <<>>, probas |-> <<>>, summary |-> NoSummary]

\* variables of run_cv.main while evaluate is called directly
CvIdle ==
    /\ y = <<>> /\ folds = 0 /\ test_folds = <<>> /\ fold = 0
    /\ tr = {} /\ te = {} /\ model = NoModel /\ built = 0
    /\ macro_f1_scores = <<>> /\ all_reports = <<>>
    /\ error = NoError /\ warned = {}
    /\ run = 1 /\ memo = NoMemo

CvUnchanged == UNCHANGED <<run, memo, y, folds, test_folds, fold, tr, te, model, built,
                           macro_f1_scores, all_reports, error, warned>>

\* variables of bootstrap_ci and of the summary before they are used
BootIdle ==
    /\ values = <<>> /\ n_boot = 0 /\ alpha = RZero /\ seed = 0 /\ rng = -1
    /\ sample = <<>>
    /\ boots = <<>> /\ ci = <<>> /\ np_global = 0 /\ others = 0 /\ calls = 0
    /\ last_ci = <<>> /\ summary = NoSummary

BootUnchanged == UNCHANGED <<values, n_boot, alpha, seed, rng, boots, sample, ci, np_global,
                             others, calls, last_ci, summary>>

(* A direct call evaluate(y_true, probas, classes) with arbitrary arguments *)
InitEval ==
    /\ mode = "eval"
    /\ pc = "call"
    /\ y_true \in SeqsOf(Labels, 1, MaxRows)
    /\ classes \in ClassLists(ClassLabels)
    /\ \E nr \in 1..MaxRows, nc \in 1..Cardinality(ClassLabels) :
          probas \in Matrices(nr, GridRows(nc))
    /\ res = NoRes
    /\ CvIdle
    /\ BootIdle

\* (faulty variant of EvaluateCall) evaluate overwrites each row of probas
\* with the one-hot vector of its prediction
EvaluateCallInPlace ==
    /\ mode = "eval"
    /\ pc = "call"
    /\ res' = Evaluate(y_true, probas, classes)
    /\ probas' = [r \in DOMAIN probas |->
                    [j \in DOMAIN probas[r] |->
                       IF j = NpArgmax(probas[r]) THEN Scale ELSE 0]]
    /\ pc' = "returned"
    /\ UNCHANGED <<mode, y_true, classes>>
    /\ CvUnchanged
    /\ BootUnchanged

EvaluateCall ==
    /\ mode = "eval"
    /\ pc = "call"
    /\ res' = Evaluate(y_true, probas, classes)
    /\ pc' = "returned"
    /\ BootUnchanged
    /\ UNCHANGED <<mode, y_true, probas, classes>>
    /\ CvUnchanged

NextEval == EvaluateCall

SpecEval == InitEval /\ [][NextEval]_vars

\* n tenths on the probability grid
Tenths(n) == (n * Scale) \div 10

(* Scenario 2 of the spec: y_true = [A,A,B,B], classes [A,B] and the rows  *)
(* [0.9,0.1], [0.8,0.2], [0.2,0.8], [0.1,0.9]                              *)
Scenario2Probas ==
    <<<<Tenths(9), Tenths(1)>>, <<Tenths(8), Tenths(2)>>,
      <<Tenths(2), Tenths(8)>>, <<Tenths(1), Tenths(9)>>>>

InitScenario2 ==
    /\ mode = "eval"
    /\ pc = "call"
    /\ y_true = <<"A", "A", "B", "B">>
    /\ classes = <<"A", "B">>
    /\ probas = Scenario2Probas
    /\ res = NoRes
    /\ CvIdle
    /\ BootIdle

(* Direct calls of evaluate: arbitrary small arguments, and scenario 2 *)
SpecScenario == (InitEval \/ InitScenario2) /\ [][NextEval]_vars

\* main at line 47 with label column labels and args.folds = k
MainStarts(m, labels, k) ==
    /\ mode = m
    /\ pc = "splitter"
    /\ y = labels
    /\ folds = k
    /\ y_true = <<>> /\ probas = <<>> /\ classes = <<>> /\ res = NoRes
    /\ test_folds = <<>> /\ fold = 0 /\ tr = {} /\ te = {}
    /\ model = NoModel /\ built = 0
    /\ macro_f1_scores = <<>> /\ all_reports = <<>>
    /\ error = NoError /\ warned = {}
    /\ run = 1 /\ memo = NoMemo
    /\ BootIdle

(* run_cv.main after load_logs: y is the label column, folds is args.folds *)
InitCV == \E labels \in SeqsOf(Labels, 1, MaxN), k \in 1..MaxK : MainStarts("cv", labels, k)

(* The splitter alone: main from line 47 up to the first pair that line 51 *)
(* yields, on longer label sequences and more folds                        *)
InitSplit ==
    \E labels \in SeqsOf(Labels, 1, MaxSplitN), k \in 1..MaxSplitK :
       MainStarts("split", labels, k)

\* (faulty variant of Raise) the exception is recorded and the loop goes on
RaiseSkip(kind, at) ==
    /\ error' = [kind |-> kind, at |-> at, fold |-> fold]
    /\ pc' = "for"

\* an exception leaves main: nothing in main catches it
Raise(kind, at) ==
    /\ error' = [kind |-> kind, at |-> at, fold |-> fold]
    /\ pc' = "failed"

\* line 47: skf = StratifiedKFold(n_splits=args.folds, shuffle=True, random_state=42)
MakeSplitter ==
    /\ mode \in {"cv", "split"} /\ pc = "splitter"
    /\ IF SplitterFails(folds)
       THEN Raise("ValueError", "StratifiedKFold")
       ELSE pc' = "for" /\ UNCHANGED error
    /\ BootUnchanged
    /\ UNCHANGED <<run, memo>>
    /\ UNCHANGED <<mode, y_true, probas, classes, res, y, folds, test_folds, fold,
                   tr, te, model, built, macro_f1_scores, all_reports, warned>>

\* (faulty variant of SeededShuffle) shuffle=True without a fixed random_state
UnseededShuffle(labels, k, earlier) == TestFoldsChoices(labels, k)

\* the per-class shuffles of a splitter built with random_state=42: split
\* creates its RandomState from that integer on every call, so the outcome is
\* a function of (labels, k); a repetition yields the earlier outcome again
SeededShuffle(labels, k, earlier) ==
    IF earlier # <<>> THEN {earlier} ELSE TestFoldsChoices(labels, k)

\* line 51, first iteration: the generator computes test_folds, then yields
\* the first (train, test) pair
ForFirst ==
    /\ mode \in {"cv", "split"} /\ pc = "for" /\ fold = 0
    /\ IF SplitFails(y, folds)
       THEN /\ Raise("ValueError", "split")
            /\ UNCHANGED <<test_folds, fold, tr, te, warned, memo>>
       ELSE /\ \E tf \in SeededShuffle(y, folds, memo.test_folds) :
                 /\ test_folds' = tf
                 /\ memo' = IF run = 1 THEN [memo EXCEPT !.test_folds = tf] ELSE memo
                 /\ tr' = TrainIdx(tf, 0)
                 /\ te' = TestIdx(tf, 0)
            /\ fold' = 1
            /\ warned' = IF SplitWarns(y, folds)
                         THEN warned \cup {"least populated class"} ELSE warned
            /\ pc' = "build"
            /\ UNCHANGED error
    /\ BootUnchanged
    /\ UNCHANGED run
    /\ UNCHANGED <<mode, y_true, probas, classes, res, y, folds, model, built,
                   macro_f1_scores, all_reports>>

\* (faulty variant of ForNext) the loop ends after its first pass
ForNextEarly ==
    /\ mode = "cv" /\ pc = "for" /\ fold >= 1
    /\ pc' = "aggregate"
    /\ UNCHANGED <<fold, tr, te>>
    /\ BootUnchanged
    /\ UNCHANGED <<run, memo>>
    /\ UNCHANGED <<mode, y_true, probas, classes, res, y, folds, test_folds, model,
                   built, macro_f1_scores, all_reports, error, warned>>

\* line 51, later iterations: the next pair, or the end of the loop
ForNext ==
    /\ mode = "cv" /\ pc = "for" /\ fold >= 1
    /\ IF fold < folds
       THEN /\ fold' = fold + 1
            /\ tr' = TrainIdx(test_folds, fold)
            /\ te' = TestIdx(test_folds, fold)
            /\ pc' = "build"
       ELSE /\ pc' = "aggregate"
            /\ UNCHANGED <<fold, tr, te>>
    /\ BootUnchanged
    /\ UNCHANGED <<run, memo>>
    /\ UNCHANGED <<mode, y_true, probas, classes, res, y, folds, test_folds, model,
                   built, macro_f1_scores, all_reports, error, warned>>

\* (faulty variant of Build) one classifier instance is built once and kept
BuildReuse ==
    /\ mode = "cv" /\ pc = "build"
    /\ IF built = 0
       THEN built' = 1 /\ model' = [NoModel EXCEPT !.id = 1]
       ELSE UNCHANGED <<built, model>>
    /\ pc' = "fit"
    /\ BootUnchanged
    /\ UNCHANGED <<run, memo>>
    /\ UNCHANGED <<mode, y_true, probas, classes, res, y, folds, test_folds, fold,
                   tr, te, macro_f1_scores, all_reports, error, warned>>

\* line 52: model = build()
Build ==
    /\ mode = "cv" /\ pc = "build"
    /\ built' = built + 1
    /\ model' = [NoModel EXCEPT !.id = built + 1]
    /\ pc' = "fit"
    /\ BootUnchanged
    /\ UNCHANGED <<run, memo>>
    /\ UNCHANGED <<mode, y_true, probas, classes, res, y, folds, test_folds, fold,
                   tr, te, macro_f1_scores, all_reports, error, warned>>

\* line 53: model.fit(X[tr], y[tr]); the classifier is external and may raise.
\* The models are deterministic: in a repetition (run 2) fit and predict_proba
\* do what they did on the same data in run 1
Fit ==
    /\ mode = "cv" /\ pc = "fit"
    /\ \/ /\ model' = [model EXCEPT !.fitted = TRUE,
                                    !.classes_ = SortLabels(Range(Take(y, tr))),
                                    !.fit_idx = tr]
          /\ pc' = "predict"
          /\ UNCHANGED error
       \/ /\ run = 1
          /\ Raise("Exception", "fit")
          /\ UNCHANGED model
    /\ BootUnchanged
    /\ UNCHANGED <<run, memo>>
    /\ UNCHANGED <<mode, y_true, probas, classes, res, y, folds, test_folds, fold,
                   tr, te, built, macro_f1_scores, all_reports, warned>>

\* lines 54-55: probas = model.predict_proba(X[te]); classes = list(model.classes_)
Predict ==
    /\ mode = "cv" /\ pc = "predict"
    /\ \/ /\ Len(model.classes_) > 0
          /\ IF run = 1
             THEN /\ probas' \in Matrices(Cardinality(te), SimplexRows(Len(model.classes_)))
                  /\ memo' = [memo EXCEPT !.probas = Append(@, probas')]
             ELSE /\ probas' = memo.probas[fold]
                  /\ UNCHANGED memo
          /\ classes' = model.classes_
          /\ model' = [model EXCEPT !.pred_idx = te]
          /\ pc' = "evaluate"
          /\ UNCHANGED error
       \/ /\ run = 1
          /\ Raise("Exception", "predict_proba")
          /\ UNCHANGED <<probas, classes, model, memo>>
    /\ BootUnchanged
    /\ UNCHANGED run
    /\ UNCHANGED <<mode, y_true, res, y, folds, test_folds, fold, tr, te, built,
                   macro_f1_scores, all_reports, warned>>

\* (faulty variant of EvaluateFold) the macro F1 and the report are put in
\* front of the lists
EvaluateFoldPrepend ==
    /\ mode = "cv" /\ pc = "evaluate"
    /\ y_true' = Take(y, te)
    /\ LET r == Evaluate(Take(y, te), probas, classes) IN
         /\ res' = r
         /\ IF r.outcome = "ok"
            THEN /\ macro_f1_scores' = <<r.report["macro avg"]["f1-score"]>> \o macro_f1_scores
                 /\ all_reports' = <<r.report>> \o all_reports
                 /\ pc' = "for"
                 /\ UNCHANGED error
            ELSE /\ Raise(r.outcome, "evaluate")
                 /\ UNCHANGED <<macro_f1_scores, all_reports>>
    /\ BootUnchanged
    /\ UNCHANGED <<run, memo>>
    /\ UNCHANGED <<mode, probas, classes, y, folds, test_folds, fold, tr, te, model,
                   built, warned>>

\* lines 56-59: res = evaluate(y[te], probas, classes); the macro F1 and the
\* report are appended
EvaluateFold ==
    /\ mode = "cv" /\ pc = "evaluate"
    /\ y_true' = Take(y, te)
    /\ LET r == Evaluate(Take(y, te), probas, classes) IN
         /\ res' = r
         /\ IF r.outcome = "ok"
            THEN /\ macro_f1_scores' = Append(macro_f1_scores, r.report["macro avg"]["f1-score"])
                 /\ all_reports' = Append(all_reports, r.report)
                 /\ pc' = "for"
                 /\ UNCHANGED error
            ELSE /\ Raise(r.outcome, "evaluate")
                 /\ UNCHANGED <<macro_f1_scores, all_reports>>
    /\ BootUnchanged
    /\ UNCHANGED <<run, memo>>
    /\ UNCHANGED <<mode, probas, classes, y, folds, test_folds, fold, tr, te, model,
                   built, warned>>

\* the variables of evaluate and of the fold loop
EvalCvUnchanged ==
    UNCHANGED <<mode, y_true, probas, classes, res, y, folds, test_folds, fold, tr, te,
                model, built, macro_f1_scores, all_reports, error, warned, run, memo>>

\* values a float can hold exactly
FloatVals == {<<1, 2>>, <<7, 8>>, <<1, 1>>}

\* the alpha arguments of a direct call: the default 0.05, and 0.5
Alphas == {<<1, 20>>, <<1, 2>>}

(* A direct call bootstrap_ci(values, n_boot, alpha, seed), followed by    *)
(* other computation and a second call with the same arguments             *)
InitBoot ==
    /\ mode = "boot"
    /\ pc = "boot_rng"
    /\ values \in SeqsOf(FloatVals, 1, MaxVals)
    /\ n_boot \in 1..MaxBoot
    /\ alpha \in Alphas
    /\ seed \in 0..MaxSeed
    /\ np_global \in 0..MaxSeed
    /\ rng = -1 /\ boots = <<>> /\ sample = <<>> /\ ci = <<>> /\ others = 0 /\ calls = 0
    /\ last_ci = <<>> /\ summary = NoSummary
    /\ y_true = <<>> /\ probas = <<>> /\ classes = <<>> /\ res = NoRes
    /\ CvIdle

\* (faulty variant of BootStart) the generator is numpy's global one
BootStartGlobal ==
    /\ mode \in {"boot", "cv"} /\ pc = "boot_rng"
    /\ rng' = np_global
    /\ boots' = <<>>
    /\ pc' = "boot_loop"
    /\ UNCHANGED <<values, n_boot, alpha, seed, sample, ci, np_global, others, calls, last_ci,
                   summary>>
    /\ EvalCvUnchanged

\* lines 17-18: rng = np.random.default_rng(seed); boots = []
BootStart ==
    /\ mode \in {"boot", "cv"} /\ pc = "boot_rng"
    /\ rng' = SeedSequence(seed)
    /\ boots' = <<>>
    /\ pc' = "boot_loop"
    /\ UNCHANGED <<values, n_boot, alpha, seed, sample, ci, np_global, others, calls, last_ci,
                   summary>>
    /\ EvalCvUnchanged

\* lines 19-21: one pass of the loop: a resample and its mean
Resample ==
    /\ mode \in {"boot", "cv"} /\ pc = "boot_loop"
    /\ Len(boots) < n_boot
    /\ sample' = Sample(values, rng)
    /\ boots' = Append(boots, NpMean(sample'))
    /\ rng' = RngAfter(rng, Len(values))
    /\ UNCHANGED <<values, n_boot, alpha, seed, ci, np_global, others, calls, last_ci,
                   summary, pc>>
    /\ EvalCvUnchanged

\* lines 22-24: the two percentiles of boots are returned
Percentiles ==
    /\ mode \in {"boot", "cv"} /\ pc = "boot_loop"
    /\ Len(boots) = n_boot
    /\ ci' = <<NpPercentile(boots, QuantLo(alpha)), NpPercentile(boots, QuantHi(alpha))>>
    /\ calls' = calls + 1
    /\ pc' = "boot_ret"
    /\ UNCHANGED <<values, n_boot, alpha, seed, rng, boots, sample, np_global, others, last_ci,
                   summary>>
    /\ EvalCvUnchanged

\* code outside bootstrap_ci draws from numpy's global generator
OtherComputation ==
    /\ mode = "boot" /\ pc = "boot_ret" /\ calls = 1
    /\ others < MaxOther
    /\ np_global' = LcgNext(np_global)
    /\ others' = others + 1
    /\ UNCHANGED <<values, n_boot, alpha, seed, rng, boots, sample, ci, calls, last_ci,
                   summary, pc>>
    /\ EvalCvUnchanged

\* bootstrap_ci is called a second time with the same arguments
CallAgain ==
    /\ mode = "boot" /\ pc = "boot_ret" /\ calls = 1
    /\ last_ci' = ci
    /\ ci' = <<>> /\ boots' = <<>> /\ sample' = <<>> /\ rng' = -1
    /\ pc' = "boot_rng"
    /\ UNCHANGED <<values, n_boot, alpha, seed, np_global, others, calls, summary>>
    /\ EvalCvUnchanged

NextBoot == BootStart \/ Resample \/ Percentiles \/ OtherComputation \/ CallAgain

SpecBoot == InitBoot /\ [][NextBoot]_vars

\* lines 61-62: macro_f1_scores = np.array(macro_f1_scores);
\* bootstrap_ci(macro_f1_scores, n_boot=2000) is entered
Aggregate ==
    /\ mode = "cv" /\ pc = "aggregate"
    /\ values' = [i \in 1..Len(macro_f1_scores) |-> FRound(macro_f1_scores[i])] \o <<>>
    /\ n_boot' = MainNBoot
    /\ alpha' = <<1, 20>>
    /\ seed' = 42
    /\ pc' = "boot_rng"
    /\ UNCHANGED <<rng, boots, sample, ci, np_global, others, calls, last_ci, summary>>
    /\ UNCHANGED <<mode, y_true, probas, classes, res, y, folds, test_folds, fold, tr, te,
                   model, built, macro_f1_scores, all_reports, error, warned, run, memo>>

\* lines 62-75: lo, hi = the returned pair; the summary is built and written
WriteSummary ==
    /\ mode = "cv" /\ pc = "boot_ret"
    /\ summary' = [written |-> TRUE,
                   folds |-> folds,
                   macro_f1_mean |-> NpMean(values),
                   macro_f1_ci |-> ci,
                   fold_reports |-> all_reports]
    /\ pc' = "done"
    /\ UNCHANGED <<values, n_boot, alpha, seed, rng, boots, sample, ci, np_global, others, calls,
                   last_ci>>
    /\ UNCHANGED <<mode, y_true, probas, classes, res, y, folds, test_folds, fold, tr, te,
                   model, built, macro_f1_scores, all_reports, error, warned, run, memo>>

NextCV ==
    \/ MakeSplitter \/ ForFirst \/ ForNext \/ Build \/ Fit \/ Predict \/ EvaluateFold
    \/ Aggregate \/ BootStart \/ Resample \/ Percentiles \/ WriteSummary

SpecCV == InitCV /\ [][NextCV]_vars

\* main is run a second time on the same dataset with the same --folds
RunAgain ==
    /\ mode = "cv" /\ pc = "done" /\ run = 1
    /\ run' = 2
    /\ memo' = [memo EXCEPT !.summary = summary]
    /\ pc' = "splitter"
    /\ y_true' = <<>> /\ probas' = <<>> /\ classes' = <<>> /\ res' = NoRes
    /\ test_folds' = <<>> /\ fold' = 0 /\ tr' = {} /\ te' = {}
    /\ model' = NoModel /\ built' = 0
    /\ macro_f1_scores' = <<>> /\ all_reports' = <<>>
    /\ values' = <<>> /\ n_boot' = 0 /\ alpha' = RZero /\ seed' = 0 /\ rng' = -1
    /\ boots' = <<>> /\ sample' = <<>> /\ ci' = <<>> /\ calls' = 0 /\ summary' = NoSummary
    /\ UNCHANGED <<mode, y, folds, error, warned, np_global, others, last_ci>>

(* Two CV runs on the same dataset *)
SpecRerun == InitCV /\ [][NextCV \/ RunAgain]_vars

(* Direct calls of evaluate together with the calls main makes *)
SpecEvalCV == (InitEval \/ InitCV) /\ [][NextEval \/ NextCV]_vars

(* Direct calls of bootstrap_ci together with the calls main makes *)
SpecBootCV == (InitBoot \/ InitCV) /\ [][NextBoot \/ NextCV]_vars

NextSplit == MakeSplitter \/ ForFirst

SpecSplit == InitSplit /\ [][NextSplit]_vars

-----------------------------------------------------------------------------
(* Properties *)

\* the number of samples of labels that carry label l
LabelCount(labels, l) == Cardinality({p \in DOMAIN labels : labels[p] = l})

AllClassesAtLeast(labels, k) == \A l \in Range(labels) : LabelCount(labels, l) >= k

SomeClassBelow(labels, k) == \E l \in Range(labels) : LabelCount(labels, l) < k

\* the first column that holds the maximum of row
FirstMaxCol(row) ==
    CHOOSE j \in DOMAIN row :
       /\ \A m \in DOMAIN row : row[m] <= row[j]
       /\ \A m \in 1..(j - 1) : row[m] < row[j]

\* the predicted labels as the spec states them
ArgmaxLabels(P, cls) == [r \in DOMAIN P |-> cls[FirstMaxCol(P[r])]]

\* evaluate has returned or raised in a direct call, or has just returned in
\* the fold of a CV run: y_true, probas, classes and res belong to one call
Evaluated ==
    \/ mode = "eval" /\ pc = "returned"
    \/ mode = "cv" /\ pc = "for" /\ fold >= 1
    \/ mode = "cv" /\ pc = "failed" /\ error.at = "evaluate"

(* Scenario 1 of the spec: 6 balanced classes, 600 samples, k = 5 *)
Scenario1Classes == <<"c1", "c2", "c3", "c4", "c5", "c6">>
Scenario1Labels == [p \in 1..600 |-> Scenario1Classes[((p - 1) \div 100) + 1]]
Scenario1Allocation == Allocation(Scenario1Labels, 5)
Scenario1Holds ==
    \A i \in 0..4 :
       /\ \A c \in 1..6 : Scenario1Allocation[i][c] = 20
       /\ SumTo(Scenario1Allocation[i], 6) = 120

(* C1: when every class has at least k members (k >= 2), the split succeeds *)
(* and the k test index sets are pairwise disjoint and cover every sample  *)
(* position exactly once.                                                  *)
C1_TestSetsPartition ==
    (folds >= 2 /\ AllClassesAtLeast(y, folds) /\ pc \notin {"splitter", "for"}) =>
       /\ pc # "failed"
       /\ DOMAIN test_folds = DOMAIN y
       /\ \A i, j \in 0..(folds - 1) :
             i # j => TestIdx(test_folds, i) \cap TestIdx(test_folds, j) = {}
       /\ UNION {TestIdx(test_folds, i) : i \in 0..(folds - 1)} = DOMAIN y
       /\ \A p \in DOMAIN y :
             Cardinality({i \in 0..(folds - 1) : p \in TestIdx(test_folds, i)}) = 1

\* a split of at least two classes, each with at least k members, has been made
C1_Witness ==
    /\ mode = "split" /\ pc = "build" /\ folds >= 2
    /\ AllClassesAtLeast(y, folds) /\ Cardinality(Range(y)) >= 2

(* C2 (as claimed): when some class has fewer than k members the split     *)
(* fails (the spec names the error InsufficientSamplesError), no (train,   *)
(* test) pair is returned and no classifier is built.  The formula leaves  *)
(* the name of the error open: it asks only that the run fails before a    *)
(* split exists.                                                           *)
C2_InsufficientSamplesRejected ==
    (mode = "cv" /\ SomeClassBelow(y, folds) /\ pc \notin {"splitter", "for"}) =>
       /\ pc = "failed"
       /\ test_folds = <<>>
       /\ built = 0

(* C3: once the split is made, each fold's test set holds floor(n_c/k) or  *)
(* ceil(n_c/k) samples of every class c; the balanced 600-sample dataset   *)
(* with k = 5 gets 20 samples per class and 120 per fold.                  *)
C3_StratifiedCounts ==
    /\ Scenario1Holds
    /\ (pc = "build" /\ fold = 1) =>
          \A i \in 0..(folds - 1) : \A l \in Range(y) :
             LET n == LabelCount(y, l)
                 t == Cardinality({p \in DOMAIN y : test_folds[p] = i /\ y[p] = l})
             IN t = n \div folds \/ t = (n + folds - 1) \div folds

\* a split in which a class size is no multiple of k: one fold holds the
\* floor and another the ceiling
C3_Witness ==
    /\ mode = "split" /\ pc = "build" /\ AllClassesAtLeast(y, folds)
    /\ \E l \in Range(y) : \E i, j \in 0..(folds - 1) :
          /\ Cardinality({p \in DOMAIN y : test_folds[p] = i /\ y[p] = l}) = 1
          /\ Cardinality({p \in DOMAIN y : test_folds[p] = j /\ y[p] = l}) = 2

(* C4: in every fold the train and test index sets are disjoint, train is  *)
(* the complement of test, and the classifier of the fold is fit on train  *)
(* and asked to predict only on test.                                      *)
C4_TrainTestComplement ==
    (mode = "cv" /\ fold >= 1) =>
       /\ te = {p \in DOMAIN y : test_folds[p] = fold - 1}
       /\ tr \cap te = {}
       /\ tr = DOMAIN y \ te
       /\ pc \in {"predict", "evaluate"} => (model.fitted /\ model.fit_idx = tr)
       /\ pc = "evaluate" => model.pred_idx = te
       /\ model.fit_idx \cap model.pred_idx = {}

\* the classifier of the second fold has been fit and has predicted
C4_Witness ==
    /\ mode = "cv" /\ pc = "evaluate" /\ fold = 2
    /\ model.fit_idx # {} /\ model.pred_idx # {}

(* C5 (as claimed): a probas whose column count differs from len(classes)  *)
(* or whose row count differs from len(y_true) makes evaluate fail (the    *)
(* spec names the error ShapeMismatchError) before anything is computed.   *)
(* The formula leaves the name of the error and the moment it is raised    *)
(* open: it asks only that such a call returns no result.                  *)
C5_ShapeMismatchRejected ==
    (mode = "eval" /\ pc = "returned"
       /\ (NCols(probas) # Len(classes) \/ NRows(probas) # Len(y_true))) =>
       res.outcome # "ok"

(* C6: the predicted label of a row is the class at the first column that  *)
(* holds the row's maximum; the report, the confusion matrix and the ECE   *)
(* correctness indicator all use that label.                               *)
C6_ArgmaxLowestIndex ==
    (mode = "eval" /\ pc = "returned" /\ "preds" \in res.computed) =>
       /\ \A r \in DOMAIN probas : res.preds[r] = ArgmaxLabels(probas, classes)[r]
       /\ "report" \in res.computed =>
             res.report = ClassificationReport(y_true, ArgmaxLabels(probas, classes))
       /\ "confusion" \in res.computed =>
             res.confusion = ConfusionMatrix(y_true, ArgmaxLabels(probas, classes), classes)
       /\ "ece" \in res.computed =>
             \A r \in DOMAIN probas :
                Correct(y_true, probas, classes)[r]
                   <=> (ArgmaxLabels(probas, classes)[r] = y_true[r])

\* evaluate returned for a matrix with a row whose two columns tie
C6_Witness ==
    /\ mode = "eval" /\ pc = "returned" /\ res.outcome = "ok" /\ Len(classes) = 2
    /\ \E r \in DOMAIN probas : probas[r][1] = probas[r][2] /\ res.preds[r] = classes[1]

(* C7: the confusion matrix is K x K in the order of the supplied class    *)
(* list, entry (i, j) counting the samples with true label classes[i] and  *)
(* predicted label classes[j].                                             *)
C7_ConfusionMatrixEntries ==
    (mode = "eval" /\ pc = "returned" /\ "confusion" \in res.computed) =>
       /\ DOMAIN res.confusion = 1..Len(classes)
       /\ \A i \in 1..Len(classes) :
             /\ DOMAIN res.confusion[i] = 1..Len(classes)
             /\ \A j \in 1..Len(classes) :
                   res.confusion[i][j] =
                      Cardinality({r \in DOMAIN y_true :
                                     /\ y_true[r] = classes[i]
                                     /\ ArgmaxLabels(probas, classes)[r] = classes[j]})

\* a class list that is not in sorted order, and a sample of its first class
\* predicted as its second
C7_Witness ==
    /\ mode = "eval" /\ pc = "returned" /\ res.outcome = "ok"
    /\ classes = <<"B", "A">> /\ res.confusion[1][2] > 0

(* C8 (as claimed): each row of the confusion matrix sums to the number of *)
(* samples whose true label is the row's class, and all entries sum to     *)
(* len(y_true).                                                            *)
C8_ConfusionSums ==
    (Evaluated /\ res.outcome = "ok") =>
       /\ \A i \in 1..Len(classes) :
             SumTo(res.confusion[i], Len(classes)) = LabelCount(y_true, classes[i])
       /\ SumTo([i \in 1..Len(classes) |-> SumTo(res.confusion[i], Len(classes))],
                Len(classes)) = Len(y_true)

(* C9: in the report a class that is never predicted has precision 0, a    *)
(* class without true instances has recall 0, F1 is 0 when both are 0,     *)
(* support is the number of true instances, and no division by zero ends   *)
(* evaluate.                                                               *)
C9_ZeroDivisionIsZero ==
    (mode = "eval" /\ pc = "returned" /\ "report" \in res.computed) =>
       /\ res.outcome # "ZeroDivisionError"
       /\ \A l \in Range(y_true) \cup Range(res.preds) :
             /\ l \in DOMAIN res.report
             /\ LabelCount(res.preds, l) = 0 => res.report[l]["precision"] = RZero
             /\ LabelCount(y_true, l) = 0 => res.report[l]["recall"] = RZero
             /\ (res.report[l]["precision"] = RZero /\ res.report[l]["recall"] = RZero)
                   => res.report[l]["f1-score"] = RZero
             /\ res.report[l]["support"] = <<LabelCount(y_true, l), 1>>

\* a report with a class that is never predicted and a class without true instances
C9_Witness ==
    /\ mode = "eval" /\ pc = "returned" /\ res.outcome = "ok"
    /\ \E l \in Range(y_true) : LabelCount(res.preds, l) = 0
    /\ \E l \in Range(res.preds) : LabelCount(y_true, l) = 0

\* F1 of class c over all samples: 2 TP / (true + predicted), 0 when undefined
F1Of(yt, pr, c) ==
    LET tp == Cardinality({r \in DOMAIN yt : yt[r] = c /\ pr[r] = c})
        d == LabelCount(yt, c) + LabelCount(pr, c)
    IN IF d = 0 THEN RZero ELSE Rat(2 * tp, d)

(* C10 (as claimed): the report has an entry for every class of the class  *)
(* list, its macro-average F1 is the mean of the F1 of all K classes, and  *)
(* that is the value the CV run appends to macro_f1_scores.                *)
C10_ReportCoversClassList ==
    (Evaluated /\ res.outcome = "ok") =>
       /\ \A c \in Range(classes) : c \in DOMAIN res.report
       /\ res.report["macro avg"]["f1-score"] =
             RMeanTo([i \in 1..Len(classes) |-> F1Of(y_true, res.preds, classes[i])],
                     Len(classes))
       /\ mode = "cv" =>
             macro_f1_scores[Len(macro_f1_scores)] = res.report["macro avg"]["f1-score"]

\* the squared error, in units of 1/Scale^2, between the indicator of class
\* cls[i] and column i, summed over all rows
SquaredErrors(yt, P, cls, i) ==
    SumTo([r \in 1..Len(yt) |->
             ((IF yt[r] = cls[i] THEN Scale ELSE 0) - P[r][i])
           * ((IF yt[r] = cls[i] THEN Scale ELSE 0) - P[r][i])], Len(yt))

\* row r of P is the one-hot vector of yt[r] over the class list
OneHotRow(yt, P, cls, r) ==
    /\ yt[r] \in Range(cls)
    /\ DOMAIN P[r] = DOMAIN cls
    /\ \A i \in DOMAIN cls : P[r][i] = IF yt[r] = cls[i] THEN Scale ELSE 0

(* C11: the Brier score evaluate returns is the mean over the K classes of *)
(* the mean squared error between the class indicator and the class's      *)
(* column; it lies in [0,1]; and, for a matrix with one column per class   *)
(* and true labels of the class list, it is 0 exactly when every row is    *)
(* the one-hot vector of its true label.                                   *)
C11_BrierScore ==
    (mode = "eval" /\ pc = "returned" /\ res.outcome = "ok") =>
       /\ RLe(RZero, res.brier) /\ RLe(res.brier, ROne)
       /\ res.brier[1] * (Len(classes) * Len(y_true) * Scale * Scale) =
             res.brier[2] * SumTo([i \in 1..Len(classes) |->
                                     SquaredErrors(y_true, probas, classes, i)],
                                  Len(classes))
       /\ (NCols(probas) = Len(classes) /\ Range(y_true) \subseteq Range(classes)) =>
             (res.brier = RZero
                <=> \A r \in DOMAIN y_true : OneHotRow(y_true, probas, classes, r))

\* a two-class call whose rows are all one-hot on the true label, and whose
\* Brier score is 0
C11_Witness ==
    /\ mode = "eval" /\ pc = "returned" /\ res.outcome = "ok"
    /\ Len(classes) = 2 /\ Len(y_true) = 2 /\ y_true[1] # y_true[2]
    /\ \A r \in DOMAIN y_true : OneHotRow(y_true, probas, classes, r)
    /\ res.brier = RZero

\* a call whose Brier score is the largest possible, 1
C11_WitnessWorst ==
    /\ mode = "eval" /\ pc = "returned" /\ res.outcome = "ok"
    /\ Len(classes) = 2 /\ res.brier = ROne

\* every row of P sums to 1
RowsSumToOne(P) == \A r \in DOMAIN P : SumTo(P[r], Len(P[r])) = Scale

(* C12: for a matrix whose rows sum to 1 the ECE evaluate returns lies in  *)
(* [0,1], and it is exactly 0 when every row's maximum probability is 1    *)
(* and its argmax class is the true label.                                 *)
C12_EceRange ==
    (Evaluated /\ res.outcome = "ok" /\ RowsSumToOne(probas)) =>
       /\ RLe(RZero, res.ece) /\ RLe(res.ece, ROne)
       /\ (\A r \in DOMAIN probas :
              /\ \E j \in DOMAIN probas[r] :
                    probas[r][j] = Scale /\ \A m \in DOMAIN probas[r] : probas[r][m] <= Scale
              /\ ArgmaxLabels(probas, classes)[r] = y_true[r])
             => res.ece = RZero

\* fully confident, all-correct predictions over two classes
C12_Witness ==
    /\ mode = "eval" /\ pc = "returned" /\ res.outcome = "ok" /\ RowsSumToOne(probas)
    /\ Len(classes) = 2 /\ Len(y_true) = 2 /\ y_true[1] # y_true[2]
    /\ \A r \in DOMAIN probas :
          /\ ArgmaxLabels(probas, classes)[r] = y_true[r]
          /\ probas[r][NpArgmax(probas[r])] = Scale
    /\ res.ece = RZero

\* fully confident, all-wrong predictions: the ECE is 1
C12_WitnessWorst ==
    /\ mode = "eval" /\ pc = "returned" /\ res.outcome = "ok" /\ RowsSumToOne(probas)
    /\ res.ece = ROne

(* C13 (as claimed): every sample is counted in exactly one of the bins of *)
(* expected_calibration_error, a sample of confidence exactly 0 included:  *)
(* the bin populations sum to the number of samples.                       *)
C13_NoSampleDropped ==
    (Evaluated /\ res.outcome = "ok") =>
       /\ SumTo(res.bin_counts, Bins) = NRows(probas)
       /\ \A r \in DOMAIN probas :
             Cardinality({b \in 1..Bins : r \in BinMask(Confidences(probas), b - 1)}) = 1

(* C13, as far as it holds: a sample is in at most one bin, and every      *)
(* sample of confidence in (0,1] is in exactly one.                         *)
C13_PositiveConfidenceBinned ==
    (Evaluated /\ res.outcome = "ok") =>
       \A r \in DOMAIN probas :
          LET n == Cardinality({b \in 1..Bins : r \in BinMask(Confidences(probas), b - 1)})
          IN /\ n <= 1
             /\ (Confidences(probas)[r] > 0 /\ Confidences(probas)[r] <= Scale) => n = 1

(* C14: the pair bootstrap_ci returns is ordered, lo <= hi, and so is the  *)
(* macro_f1_ci pair of the summary a CV run writes.                        *)
C14_IntervalOrdered ==
    /\ (pc = "boot_ret" /\ Len(values) >= 1 /\ n_boot >= 1) =>
          /\ Len(ci) = 2 /\ RLe(ci[1], ci[2])
          /\ \A i \in 1..2 : \E b1, b2 \in Range(boots) : RLe(b1, ci[i]) /\ RLe(ci[i], b2)
    /\ summary.written =>
          /\ Len(summary.macro_f1_ci) = 2
          /\ RLe(summary.macro_f1_ci[1], summary.macro_f1_ci[2])

\* a call that returned an interval of positive width
C14_Witness ==
    /\ mode = "boot" /\ pc = "boot_ret" /\ n_boot = MaxBoot
    /\ RLt(ci[1], ci[2])

\* a CV run whose summary holds an interval of positive width
C14_WitnessSummary ==
    /\ mode = "cv" /\ summary.written
    /\ RLt(summary.macro_f1_ci[1], summary.macro_f1_ci[2])

\* every element of s is the same value
IsConstant(s) == \A i, j \in DOMAIN s : s[i] = s[j]

(* C15 (as claimed): for an input whose elements all equal one constant c  *)
(* bootstrap_ci returns lo == hi == c.                                     *)
C15_ConstantInput ==
    (pc = "boot_ret" /\ Len(values) >= 1 /\ IsConstant(values)) =>
       ci = <<values[1], values[1]>>

(* C15, as far as it holds: for a constant input lo == hi, both equal to   *)
(* np.mean of the input, which is c itself for an input of one or two      *)
(* elements.                                                               *)
C15_ConstantInputMean ==
    (pc = "boot_ret" /\ Len(values) >= 1 /\ IsConstant(values)) =>
       /\ ci = <<NpMean(values), NpMean(values)>>
       /\ Len(values) <= 2 => ci = <<values[1], values[1]>>

(* C16: a second call of bootstrap_ci with the same (values, n_boot,       *)
(* alpha, seed) returns the same pair as the first, whatever the state of  *)
(* numpy's global generator and whatever ran in between: the generator the *)
(* call reads is the one it created from the seed.                         *)
C16_SeededDeterminism ==
    /\ (mode = "boot" /\ pc = "boot_ret" /\ calls = 2) => ci = last_ci
    /\ (pc = "boot_loop" /\ boots = <<>>) => rng = SeedSequence(seed)

\* the second call has returned an interval of positive width after other
\* code advanced the global generator
C16_Witness ==
    /\ mode = "boot" /\ pc = "boot_ret" /\ calls = 2 /\ others >= 1
    /\ Len(last_ci) = 2 /\ RLt(ci[1], ci[2])

(* C17: in a CV run the classifier of fold i is the i-th instance the      *)
(* factory built; it is unfitted and unused when fit is called, and fit    *)
(* and predict_proba of fold i are called on that instance only.           *)
C17_FreshModelPerFold ==
    mode = "cv" =>
       /\ pc = "fit" =>
             /\ model.id = fold /\ built = fold
             /\ ~model.fitted /\ model.fit_idx = {} /\ model.pred_idx = {}
       /\ pc \in {"predict", "evaluate"} =>
             /\ model.id = fold /\ built = fold
             /\ model.fitted /\ model.fit_idx = tr
       /\ pc = "predict" => model.pred_idx = {}
       /\ pc = "evaluate" => model.pred_idx = te

\* the second fold's classifier has been fit and has predicted
C17_Witness ==
    /\ mode = "cv" /\ pc = "evaluate" /\ fold = 2
    /\ model.id = 2 /\ built = 2 /\ model.fitted

\* main has failed in the fit, predict_proba or evaluate step of a fold
FoldFailed == pc = "failed" /\ error.at \in {"fit", "predict_proba", "evaluate"}

(* C18: when the fit, predict_proba or evaluate step of a fold fails the   *)
(* CV run ends there: no later step of main runs, no bootstrap interval is *)
(* computed and no summary is written; a summary that is written holds the *)
(* reports of all k folds.                                                 *)
C18_FailurePropagates ==
    /\ [](mode = "cv" =>
            /\ error.kind # "none" =>
                  /\ pc = "failed"
                  /\ ~summary.written /\ values = <<>> /\ boots = <<>> /\ ci = <<>>
            /\ pc \in {"boot_rng", "boot_loop", "boot_ret", "done"} =>
                  /\ error = NoError
                  /\ Len(macro_f1_scores) = folds /\ Len(all_reports) = folds
            /\ summary.written =>
                  /\ pc = "done"
                  /\ Len(summary.fold_reports) = folds /\ Len(values) = folds)
    /\ [][pc = "failed" => pc' = "failed" /\ UNCHANGED vars]_vars

\* the second fold failed after the first was evaluated: a partial result
\* exists and nothing was written
C18_Witness ==
    /\ mode = "cv" /\ FoldFailed /\ fold = 2 /\ error.fold = 2
    /\ Len(macro_f1_scores) = 1 /\ ~summary.written

(* C19 (as claimed): a failure of a fold's fit or predict_proba step       *)
(* leaves the CV run as a FoldExecutionError that names the failing fold   *)
(* and carries the cause.                                                  *)
C19_FoldExecutionError ==
    (mode = "cv" /\ pc = "failed" /\ error.at \in {"fit", "predict_proba"}) =>
       error.kind = "FoldExecutionError"

C21_PerUnitStreams ==
    (pc = "boot_loop" /\ Len(boots) < n_boot) =>
       rng = SeedSequence(seed + Len(boots))

(* C21, what the code does instead: one generator is created from the seed *)
(* and every resample continues the stream where the one before it         *)
(* stopped.                                                                *)
C21_OneSharedStream ==
    pc = "boot_loop" => rng = RngAfter(SeedSequence(seed), Len(boots) * Len(values))

(* C22 (as claimed): when a row of probas does not sum to 1, evaluate      *)
(* still returns its result and the caller is told about the row: a        *)
(* warning about it is issued.                                             *)
C22_MalformedRowObservable ==
    (mode = "eval" /\ pc = "returned" /\ NRows(probas) = Len(y_true)
       /\ NCols(probas) = Len(classes) /\ Range(y_true) \subseteq Range(classes)
       /\ ~RowsSumToOne(probas)) =>
       /\ res.outcome = "ok"
       /\ "MalformedProbabilityRowWarning" \in res.warnings

(* C22, as far as it holds: such a call completes, the metrics are         *)
(* computed from the rows as given, and the only warning evaluate can      *)
(* issue is the report's UndefinedMetricWarning.                           *)
C22_MalformedRowUsedAsGiven ==
    (mode = "eval" /\ pc = "returned" /\ NRows(probas) = Len(y_true)
       /\ NCols(probas) = Len(classes) /\ Range(y_true) \subseteq Range(classes)
       /\ ~RowsSumToOne(probas)) =>
       /\ res.outcome = "ok"
       /\ res.warnings \subseteq {"UndefinedMetricWarning"}
       /\ res.preds = ArgmaxLabels(probas, classes) \o <<>>
       /\ res.brier[1] * (Len(classes) * Len(y_true) * Scale * Scale) =
             res.brier[2] * SumTo([i \in 1..Len(classes) |->
                                     SquaredErrors(y_true, probas, classes, i)],
                                  Len(classes))

\* evaluate has returned for the input of scenario 2 (the grid holds tenths)
Scenario2Returned ==
    /\ mode = "eval" /\ pc = "returned" /\ Scale % 10 = 0
    /\ y_true = <<"A", "A", "B", "B">> /\ classes = <<"A", "B">>
    /\ probas = Scenario2Probas

(* C23: for scenario 2 evaluate predicts [A,A,B,B], the confusion matrix   *)
(* is [[2,0],[0,2]] and the Brier score is 0.025 = 1/40.                   *)
C23_Scenario2 ==
    Scenario2Returned =>
       /\ res.outcome = "ok"
       /\ res.preds = <<"A", "A", "B", "B">>
       /\ res.confusion = <<<<2, 0>>, <<0, 2>>>>
       /\ res.brier = <<1, 40>>
       /\ res.brier = RMeanTo(<<Rat(1 + 4 + 4 + 1, 4 * 100), Rat(1 + 4 + 4 + 1, 4 * 100)>>, 2)

C23_Witness == Scenario2Returned /\ res.outcome = "ok" /\ res.brier = <<1, 40>>

\* the rows whose confidence lies in bin b of 1..Bins: ((b-1)/Bins, b/Bins]
RowsInBin(P, b) ==
    {r \in DOMAIN P :
       LET c == CHOOSE m \in Range(P[r]) : \A o \in Range(P[r]) : o <= m
       IN c * Bins > (b - 1) * Scale /\ c * Bins <= b * Scale}

\* (bin population / total) * |mean correctness - mean confidence| of bin b,
\* times total * Scale: |number correct * Scale - sum of the confidences|
BinGap(yt, P, cls, b) ==
    Abs(Cardinality({r \in RowsInBin(P, b) : ArgmaxLabels(P, cls)[r] = yt[r]}) * Scale
        - SumTo([r \in 1..Len(P) |->
                   IF r \in RowsInBin(P, b)
                   THEN CHOOSE m \in Range(P[r]) : \A o \in Range(P[r]) : o <= m
                   ELSE 0], Len(P)))

(* C24: the ECE is the sum over the non-empty bins of (bin population /    *)
(* total sample count) * |mean correctness - mean confidence|; an empty    *)
(* bin adds nothing, and the weight's denominator is the total number of   *)
(* samples, also when a sample is in no bin.                               *)
C24_EceFormula ==
    (Evaluated /\ res.outcome = "ok") =>
       /\ res.ece[1] * (NRows(probas) * Scale) =
             res.ece[2] * SumTo([b \in 1..Bins |->
                                   IF RowsInBin(probas, b) = {} THEN 0
                                   ELSE BinGap(y_true, probas, classes, b)], Bins)
       /\ \A b \in 1..Bins : res.bin_counts[b] = Cardinality(RowsInBin(probas, b))

\* a call with an empty bin, a sample that is in no bin, and a bin whose
\* accuracy and mean confidence differ
C24_Witness ==
    /\ mode = "eval" /\ pc = "returned" /\ res.outcome = "ok"
    /\ \E b \in 1..Bins : res.bin_counts[b] = 0
    /\ SumTo(res.bin_counts, Bins) < NRows(probas)
    /\ \E b \in 1..Bins : res.bin_counts[b] > 0 /\ BinGap(y_true, probas, classes, b) > 0
    /\ res.ece # RZero

\* a[p] for the 0-based position p of the ascending order of a
SortedAt(a, p) == SortRats(a)[p + 1]

\* the integer part of the exact virtual index (n - 1) * q of a percentile
VirtualFloor(n, q) == ((n - 1) * q[1]) \div q[2]

\* x lies between the two order statistics of a that surround the exact
\* virtual index of quantile q
Brackets(a, q, x) ==
    LET n == Len(a)
        p == VirtualFloor(n, q)
        nx == IF p + 1 > n - 1 THEN n - 1 ELSE p + 1
    IN RLe(SortedAt(a, p), x) /\ RLe(x, SortedAt(a, nx))

(* C25: bootstrap_ci makes exactly n_boot resamples, each of len(values)   *)
(* elements that are all elements of values (drawn with replacement),      *)
(* collects the mean of each, and returns the alpha/2 and 1 - alpha/2      *)
(* percentiles of the n_boot means.                                        *)
C25_ResampleMeans ==
    /\ (pc = "boot_loop" /\ boots # <<>>) =>
          /\ Len(boots) <= n_boot
          /\ Len(sample) = Len(values)
          /\ \A i \in DOMAIN sample : sample[i] \in Range(values)
          /\ boots[Len(boots)] = NpMean(sample)
    /\ pc = "boot_ret" =>
          /\ Len(boots) = n_boot
          /\ \A i \in DOMAIN boots :
                \E s \in [1..Len(values) -> Range(values)] : boots[i] = NpMean(s)
          /\ Brackets(boots, Rat(alpha[1], 2 * alpha[2]), ci[1])
          /\ Brackets(boots, RSub(ROne, Rat(alpha[1], 2 * alpha[2])), ci[2])

\* a call has returned in which the last resample of three distinct-valued
\* positions repeats an element, and the interval has positive width
C25_Witness ==
    /\ mode = "boot" /\ pc = "boot_ret" /\ n_boot = MaxBoot
    /\ Len(values) = 3 /\ values[1] # values[2] /\ values[2] # values[3] /\ values[1] # values[3]
    /\ Cardinality(Range(sample)) < 3
    /\ RLt(ci[1], ci[2])

\* the report of fold i of the current run, computed anew from the fold's
\* test labels and the probabilities its classifier returned
FoldReport(i) ==
    Evaluate(Take(y, TestIdx(test_folds, i - 1)),
             memo.probas[i],
             SortLabels(Range(Take(y, TrainIdx(test_folds, i - 1))))).report

(* C26: when a CV run completes, bootstrap_ci was given exactly k values,  *)
(* value i being the macro F1 of fold i's report; fold_reports holds the k *)
(* reports in fold order; the summary's folds is the number of reports;    *)
(* and macro_f1_mean is the mean of the k values.                          *)
C26_SummaryContents ==
    (mode = "cv" /\ summary.written) =>
       /\ Len(values) = folds
       /\ Len(summary.fold_reports) = folds
       /\ summary.folds = Len(summary.fold_reports)
       /\ \A i \in 1..folds :
             /\ summary.fold_reports[i] = FoldReport(i)
             /\ values[i] = FRound(summary.fold_reports[i]["macro avg"]["f1-score"])
       /\ summary.macro_f1_mean = FDiv(FSumTo(values, folds), <<folds, 1>>)

\* a completed run whose two folds have different reports and different macro F1
C26_Witness ==
    /\ mode = "cv" /\ run = 1 /\ summary.written /\ folds = 2
    /\ summary.fold_reports[1] # summary.fold_reports[2]
    /\ values[1] # values[2]

\* the order of the steps of main from the first fold on
SequentialStep ==
    /\ pc = "build" => pc' = "fit" /\ built' = fold
    /\ pc = "fit" => pc' \in {"predict", "failed"}
    /\ pc = "predict" => pc' \in {"evaluate", "failed"}
    /\ pc = "evaluate" =>
          \/ pc' = "failed"
          \/ pc' = "for" /\ Len(all_reports') = fold /\ Len(macro_f1_scores') = fold
    /\ (pc = "for" /\ fold >= 1) =>
          \/ pc' = "build" /\ fold' = fold + 1 /\ Len(all_reports) = fold
          \/ pc' = "aggregate" /\ fold = folds /\ Len(all_reports) = folds
    /\ pc = "aggregate" => pc' = "boot_rng" /\ Len(values') = folds
    /\ pc = "boot_rng" => pc' = "boot_loop"
    /\ pc = "boot_loop" => pc' \in {"boot_loop", "boot_ret"}
    /\ pc = "boot_ret" => pc' = "done" /\ summary'.written /\ summary'.macro_f1_ci = ci
    /\ summary'.written => (summary.written \/ pc = "boot_ret")

(* C27: a CV run is strictly sequential: in a fold build, fit,             *)
(* predict_proba and evaluate follow each other in that order; fold i+1    *)
(* starts only after fold i's result is recorded; the bootstrap interval   *)
(* is computed only after all k folds are recorded; the summary is written *)
(* only after the interval is computed.                                    *)
C27_StrictlySequential ==
    /\ [][(mode = "cv" /\ run = 1) => SequentialStep]_vars
    /\ [](mode = "cv" =>
            /\ pc \in {"build", "fit", "predict", "evaluate"} =>
                  Len(all_reports) = fold - 1 /\ ci = <<>> /\ ~summary.written
            /\ pc \in {"fit", "predict", "evaluate"} => built = fold
            /\ pc \in {"predict", "evaluate"} => model.fitted
            /\ pc = "evaluate" => model.pred_idx = te
            /\ pc \in {"boot_rng", "boot_loop"} =>
                  Len(all_reports) = folds /\ ci = <<>> /\ ~summary.written
            /\ summary.written => Len(ci) = 2)

\* a run of two folds has gone through every step and written its summary
C27_Witness ==
    /\ mode = "cv" /\ run = 1 /\ pc = "done" /\ folds = 2 /\ built = 2 /\ fold = 2
    /\ Len(all_reports) = 2 /\ Len(boots) = n_boot /\ summary.written

\* a step of evaluate, called directly or by main
EvaluateStep == pc \in {"call", "evaluate"} /\ res' # res

(* C28: evaluate (with multiclass_brier and expected_calibration_error)    *)
(* leaves y_true, probas and classes as they were passed; a report that    *)
(* was appended to the CV run's list is changed by no later step, and the  *)
(* values passed to bootstrap_ci are not changed by it.                    *)
C28_InputsUnchanged ==
    /\ [][(mode = "eval" /\ EvaluateStep) =>
             y_true' = y_true /\ probas' = probas /\ classes' = classes]_vars
    /\ [][(mode = "cv" /\ EvaluateStep) =>
             /\ y' = y /\ probas' = probas /\ classes' = classes
             /\ y_true' = Take(y, te) /\ te' = te]_vars
    /\ [][(mode = "cv" /\ run' = run) =>
             /\ Len(all_reports') >= Len(all_reports)
             /\ \A i \in DOMAIN all_reports : all_reports'[i] = all_reports[i]
             /\ \A i \in DOMAIN macro_f1_scores : macro_f1_scores'[i] = macro_f1_scores[i]
             /\ pc \in {"boot_rng", "boot_loop", "boot_ret"} => values' = values]_vars
    /\ [](summary.written => summary.fold_reports = all_reports)

\* main has finished: the first fold's report is still the one computed in
\* the first fold, after a second fold with a different report and the
\* bootstrap step
C28_Witness ==
    /\ mode = "cv" /\ run = 1 /\ pc = "done" /\ Len(all_reports) = 2
    /\ all_reports[1] = FoldReport(1)
    /\ all_reports[2] # all_reports[1]

\* evaluate has returned from a direct call whose rows are not one-hot
C28_WitnessEval ==
    /\ mode = "eval" /\ pc = "returned" /\ res.outcome = "ok"
    /\ \E r \in DOMAIN probas : \A j \in DOMAIN probas[r] : probas[r][j] # Scale

\* v lies between the smallest and the largest element of s
WithinRange(v, s) ==
    /\ \E i \in DOMAIN s : RLe(s[i], v)
    /\ \E i \in DOMAIN s : RLe(v, s[i])

\* v lies in [0, 1]
InUnitInterval(v) == RLe(RZero, v) /\ RLe(v, ROne)

(* C29 (as claimed): both bounds returned by bootstrap_ci lie in           *)
(* [min(values), max(values)], and so does the macro_f1_mean of a summary  *)
(* with respect to the per-fold macro-F1 values.                           *)
C29_WithinInputRange ==
    /\ (pc = "boot_ret" /\ Len(values) >= 1) =>
          WithinRange(ci[1], values) /\ WithinRange(ci[2], values)
    /\ summary.written => WithinRange(summary.macro_f1_mean, values)

(* C29, as far as it holds: the bounds lie in the range of the resample    *)
(* means and, for inputs in [0, 1], in [0, 1]; they lie in the range of    *)
(* the input when it has at most two elements.                             *)
C29_WithinUnitInterval ==
    /\ (pc = "boot_ret" /\ Len(values) >= 1) =>
          /\ WithinRange(ci[1], boots) /\ WithinRange(ci[2], boots)
          /\ (\A i \in DOMAIN values : InUnitInterval(values[i])) =>
                InUnitInterval(ci[1]) /\ InUnitInterval(ci[2])
          /\ Len(values) <= 2 =>
                WithinRange(ci[1], values) /\ WithinRange(ci[2], values)
    /\ summary.written =>
          /\ InUnitInterval(summary.macro_f1_mean)
          /\ InUnitInterval(summary.macro_f1_ci[1])
          /\ InUnitInterval(summary.macro_f1_ci[2])

(* C30: a CV run asked for k = 1 fold ends with the ValueError of the      *)
(* StratifiedKFold constructor (line 47) as its first step: no classifier  *)
(* is built or fitted, no fold is evaluated, bootstrap_ci is not called    *)
(* and no summary is written.                                              *)
C30_SingleFoldRejected ==
    /\ [][(mode = "cv" /\ folds = 1 /\ pc = "splitter") => pc' = "failed"]_vars
    /\ []((mode = "cv" /\ folds = 1) =>
            /\ pc \in {"splitter", "failed"}
            /\ pc = "failed" => error.kind = "ValueError" /\ error.at = "StratifiedKFold"
            /\ fold = 0 /\ built = 0 /\ model = NoModel
            /\ macro_f1_scores = <<>> /\ all_reports = <<>> /\ res = NoRes
            /\ boots = <<>> /\ sample = <<>> /\ ci = <<>> /\ calls = 0
            /\ summary = NoSummary)

\* a run asked for one fold on data of two classes has been rejected
C30_Witness ==
    /\ mode = "cv" /\ folds = 1 /\ pc = "failed"
    /\ error.at = "StratifiedKFold"
    /\ Len(y) = MaxN /\ Cardinality(Range(y)) = 2

====
